---- MODULE Spec2Model ----
(***************************************************************************)
(* Model of tracker.py, the SQLite helpdesk ticket tracker.                *)
(*                                                                         *)
(* One invocation of the program is one process: main() parses argv,       *)
(* dispatches to one handler, the handler opens its own connection, runs   *)
(* its statement(s) and returns, and the process exits.  The store (the    *)
(* tickets table and its AUTOINCREMENT counter) and the wall clock are     *)
(* shared by all invocations.                                              *)
(*                                                                         *)
(* Text that the program concatenates (notes) is a sequence of one-        *)
(* character strings.  An optional command-line flag is <<>> when absent   *)
(* and <<v>> when given; Python's None and SQL's NULL are <<>> in the same *)
(* way, and a present value v is <<v>>.                                    *)
(***************************************************************************)
EXTENDS Integers, Sequences, FiniteSets, TLC

VARIABLES
  tickets,   \* committed rows of table tickets: id -> row
  seq,       \* sqlite_sequence value kept for AUTOINCREMENT
  wlock,     \* holder of the database write lock, or NoProc
  clock,     \* wall clock, in ticks
  pc,        \* per process: position in main() / the handler
  argv,      \* per process: the command line it was started with
  ns,        \* per process: the Namespace parse_args() returned
  conn,      \* per process: state of the connection get_conn() opened
  ts,        \* per process: the values its now() calls returned
  tx,        \* per process: its open transaction's uncommitted image
  out        \* per process: what it printed on standard output

vars == <<tickets, seq, wlock, clock, pc, argv, ns, conn, ts, tx, out>>

\* ---------------------------------------------------------------- bounds

MaxTickets == 2    \* rows the store may hold
MaxNoteLen == 4    \* characters a notes value may reach
MaxClock == 2      \* last clock tick
TicksPerSec == 2   \* clock ticks per second of the formatted timestamp

Procs == {"p1", "p2"}
SeqProc == "p1"
NoProc == "none"

\* ------------------------------------------------------ values and inputs

None == <<>>
NULL == <<>>
Some(v) == <<v>>
Given(o) == o # <<>>
Val(o) == o[1]

NL == "\n"

Categories == {"Hardware", "Software", "Network", "Account", "Other"}
Priorities == {"Low", "Medium", "High", "Critical"}
Statuses == {"Open", "In-Progress", "Resolved", "Closed"}
Commands == {"new", "list", "find", "status", "note", "assign", "export", "stats"}

\* Command lines the model tries, valid and invalid ones.
Ids == 1 .. MaxTickets
NewArgv(t, c, p, a, n) ==
  [cmd |-> Some("new"), title |-> t, category |-> c, priority |-> p,
   assignee |-> a, notes |-> n]
ArgvNew ==
  {NewArgv(Some(<<"p">>), Some("Hardware"), None, None, None),
   NewArgv(Some(<<"p">>), Some("Hardware"), Some("High"), Some("alice"), Some(<<"a">>)),
   NewArgv(Some(<<"p">>), Some("Hardware"), None, None, Some(<<>>)),
   NewArgv(Some(<<"p">>), Some("Bogus"), None, None, None),
   NewArgv(Some(<<"p">>), Some("Hardware"), Some("Bogus"), None, None)}
ArgvStatus ==
  [cmd : {Some("status")}, id : {Some(i) : i \in Ids}, status : {Some("Resolved")}]
    \cup {[cmd |-> Some("status"), id |-> Some(1), status |-> Some("Bogus")]}
ArgvNote ==
  [cmd : {Some("note")}, id : {Some(i) : i \in Ids}, note : {Some(<<"b">>)}]
    \cup {[cmd |-> Some("note"), id |-> Some(1), note |-> None]}
ArgvAssign ==
  [cmd : {Some("assign")}, id : {Some(i) : i \in Ids}, assignee : {Some("alice")}]
ArgvRead ==
  {[cmd |-> Some("list")], [cmd |-> Some("stats")],
   [cmd |-> Some("find"), query |-> Some(<<"b">>)],
   [cmd |-> Some("export"), path |-> Some("out.csv")]}
ArgvOther == {[cmd |-> None], [cmd |-> Some("delete")]}
Argvs == ArgvNew \cup ArgvStatus \cup ArgvNote \cup ArgvAssign \cup ArgvRead \cup ArgvOther

\* ------------------------------------------------------------- utilities

Max(a, b) == IF a >= b THEN a ELSE b

RECURSIVE SetMax(_)
SetMax(S) ==
  IF S = {} THEN 0
  ELSE LET x == CHOOSE y \in S : TRUE IN Max(x, SetMax(S \ {x}))

RECURSIVE SumOver(_, _)
\* Sum of f[k] over k in S.
SumOver(f, S) ==
  IF S = {} THEN 0
  ELSE LET x == CHOOSE y \in S : TRUE IN f[x] + SumOver(f, S \ {x})

IsPrefix(s, t) == Len(s) <= Len(t) /\ SubSeq(t, 1, Len(s)) = s

\* SQL x LIKE '%q%' over the model's alphabet (no wildcard characters, one case).
Contains(s, q) ==
  \E i \in 0 .. (Len(s) - Len(q)) : SubSeq(s, i + 1, i + Len(q)) = q

\* ------------------------------------------------------------- the clock

\* now(): the wall clock formatted "%Y-%m-%d %H:%M:%S", i.e. cut to whole
\* seconds.  The fixed-width text orders as the number of seconds does, so a
\* timestamp is that number.
now == clock \div TicksPerSec

\* ------------------------------------------------------------ the parser

\* parse_args() with the choices of --status left out.
ParseErrorNoStatusChoices(a) ==
  /\ Given(a.cmd)
  /\ \/ Val(a.cmd) \notin Commands
     \/ /\ Val(a.cmd) = "new"
        /\ \/ ~Given(a.title)
           \/ ~Given(a.category)
           \/ Val(a.category) \notin Categories
           \/ (Given(a.priority) /\ Val(a.priority) \notin Priorities)
     \/ /\ Val(a.cmd) = "status"
        /\ (~Given(a.id) \/ ~Given(a.status))
     \/ /\ Val(a.cmd) = "note"
        /\ (~Given(a.id) \/ ~Given(a.note))
     \/ /\ Val(a.cmd) = "assign"
        /\ (~Given(a.id) \/ ~Given(a.assignee))
     \/ /\ Val(a.cmd) = "find"
        /\ ~Given(a.query)
     \/ /\ Val(a.cmd) = "export"
        /\ ~Given(a.path)

\* parse_args() ends the process with status 2 on these command lines.
ParseError(a) ==
  /\ Given(a.cmd)
  /\ \/ Val(a.cmd) \notin Commands
     \/ /\ Val(a.cmd) = "new"
        /\ \/ ~Given(a.title)
           \/ ~Given(a.category)
           \/ Val(a.category) \notin Categories
           \/ (Given(a.priority) /\ Val(a.priority) \notin Priorities)
     \/ /\ Val(a.cmd) = "status"
        /\ \/ ~Given(a.id)
           \/ ~Given(a.status)
           \/ Val(a.status) \notin Statuses
     \/ /\ Val(a.cmd) = "note"
        /\ (~Given(a.id) \/ ~Given(a.note))
     \/ /\ Val(a.cmd) = "assign"
        /\ (~Given(a.id) \/ ~Given(a.assignee))
     \/ /\ Val(a.cmd) = "find"
        /\ ~Given(a.query)
     \/ /\ Val(a.cmd) = "export"
        /\ ~Given(a.path)

NoArgs == [cmd |-> "-"]

\* The Namespace parse_args() returns for a command line it accepts.
parse_args(a) ==
  IF ~Given(a.cmd) THEN NoArgs
  ELSE LET c == Val(a.cmd) IN
    CASE c = "new" ->
           [cmd |-> c, title |-> Val(a.title), category |-> Val(a.category),
            priority |-> IF Given(a.priority) THEN Val(a.priority) ELSE "Medium",
            assignee |-> IF Given(a.assignee) THEN Val(a.assignee) ELSE "Unassigned",
            notes |-> a.notes]
      [] c = "status" -> [cmd |-> c, id |-> Val(a.id), status |-> Val(a.status)]
      [] c = "note" -> [cmd |-> c, id |-> Val(a.id), note |-> Val(a.note)]
      [] c = "assign" -> [cmd |-> c, id |-> Val(a.id), assignee |-> Val(a.assignee)]
      [] c = "find" -> [cmd |-> c, query |-> Val(a.query)]
      [] c = "export" -> [cmd |-> c, path |-> Val(a.path)]
      [] OTHER -> [cmd |-> c]

Writers == {"new", "status", "note", "assign"}

\* ------------------------------------------------------------- the store

Coalesce(v, d) == IF v = NULL THEN d ELSE Val(v)

\* The id counter read without being advanced.
NextIdStale(t, s) == Max(s, SetMax(DOMAIN t))

\* rowid an INTEGER PRIMARY KEY AUTOINCREMENT column gives the next insert.
NextId(t, s) == Max(s, SetMax(DOMAIN t)) + 1

\* The INSERT with its two timestamp parameters in the other order.
create_ticket_swapped(t, s, a, stamps) ==
  LET id == NextId(t, s)
      row == [id |-> id, created_at |-> stamps[2], updated_at |-> stamps[1],
              title |-> a.title, category |-> a.category, priority |-> a.priority,
              status |-> "Open", assignee |-> a.assignee,
              notes |-> Some(IF a.notes = None \/ a.notes = Some(<<>>)
                             THEN <<>> ELSE Val(a.notes))]
  IN [tickets |-> t @@ (id :> row), seq |-> id]

\* INSERT INTO tickets ... of create_ticket, with the two now() values.
create_ticket(t, s, a, stamps) ==
  LET id == NextId(t, s)
      row == [id |-> id, created_at |-> stamps[1], updated_at |-> stamps[2],
              title |-> a.title, category |-> a.category, priority |-> a.priority,
              status |-> "Open", assignee |-> a.assignee,
              notes |-> Some(IF a.notes = None \/ a.notes = Some(<<>>)
                             THEN <<>> ELSE Val(a.notes))]
  IN [tickets |-> t @@ (id :> row), seq |-> id]

\* The status UPDATE without its WHERE clause.
update_status_every_row(t, a, stamp) ==
  [i \in DOMAIN t |-> [t[i] EXCEPT !.status = a.status, !.updated_at = stamp]]

\* UPDATE tickets SET status=?, updated_at=? WHERE id=?
update_status(t, a, stamp) ==
  [i \in DOMAIN t |->
     IF i = a.id THEN [t[i] EXCEPT !.status = a.status, !.updated_at = stamp]
     ELSE t[i]]

\* The notes UPDATE that sets the new text instead of appending it.
add_note_overwrite(t, a, stamp) ==
  [i \in DOMAIN t |->
     IF i = a.id
     THEN [t[i] EXCEPT !.notes = Some(<<NL>> \o a.note), !.updated_at = stamp]
     ELSE t[i]]

\* UPDATE tickets SET notes=COALESCE(notes,'')||?, updated_at=? WHERE id=?
add_note(t, a, stamp) ==
  [i \in DOMAIN t |->
     IF i = a.id
     THEN [t[i] EXCEPT !.notes = Some(Coalesce(t[i].notes, <<>>) \o (<<NL>> \o a.note)),
                       !.updated_at = stamp]
     ELSE t[i]]

\* The assignment written as an upsert: a missing id gets a row.
assign_upsert(t, a, stamp) ==
  IF a.id \in DOMAIN t
  THEN [i \in DOMAIN t |->
          IF i = a.id THEN [t[i] EXCEPT !.assignee = a.assignee, !.updated_at = stamp]
          ELSE t[i]]
  ELSE t @@ (a.id :> [id |-> a.id, created_at |-> stamp, updated_at |-> stamp,
                      title |-> <<>>, category |-> "Other", priority |-> "Medium",
                      status |-> "Open", assignee |-> a.assignee, notes |-> NULL])

\* UPDATE tickets SET assignee=?, updated_at=? WHERE id=?
assign(t, a, stamp) ==
  [i \in DOMAIN t |->
     IF i = a.id THEN [t[i] EXCEPT !.assignee = a.assignee, !.updated_at = stamp]
     ELSE t[i]]

\* The database image a writer's statement leaves in its transaction.
Statement(t, s, a, stamps) ==
  CASE a.cmd = "new" -> create_ticket(t, s, a, stamps)
    [] a.cmd = "status" -> [tickets |-> update_status(t, a, stamps[1]), seq |-> s]
    [] a.cmd = "note" -> [tickets |-> add_note(t, a, stamps[1]), seq |-> s]
    [] a.cmd = "assign" -> [tickets |-> assign(t, a, stamps[1]), seq |-> s]

\* The status query counting the group's distinct values, COUNT(DISTINCT status).
StatusCountsDistinct(t) ==
  [s \in {t[i].status : i \in DOMAIN t} |-> 1]

\* SELECT status, COUNT(*) FROM tickets GROUP BY status
StatusCounts(t) ==
  [s \in {t[i].status : i \in DOMAIN t} |->
     Cardinality({i \in DOMAIN t : t[i].status = s})]

\* SELECT priority, COUNT(*) FROM tickets GROUP BY priority
PriorityCounts(t) ==
  [s \in {t[i].priority : i \in DOMAIN t} |->
     Cardinality({i \in DOMAIN t : t[i].priority = s})]

RECURSIVE Descending(_)
\* The members of a set of ids, largest first (ORDER BY id DESC).
Descending(S) ==
  IF S = {} THEN <<>>
  ELSE LET m == SetMax(S) IN <<m>> \o Descending(S \ {m})

Reverse(s) == [i \in 1 .. Len(s) |-> s[Len(s) + 1 - i]]

\* The ids list_tickets, find_tickets and export_csv report, in their order.
SelectIds(t, a) ==
  CASE a.cmd = "list" -> Descending(DOMAIN t)
    [] a.cmd = "find" ->
         Descending({i \in DOMAIN t :
                       \/ Contains(t[i].title, a.query)
                       \/ Contains(Coalesce(t[i].notes, <<>>), a.query)})
    [] a.cmd = "export" -> Reverse(Descending(DOMAIN t))

\* ---------------------------------------------------------- the processes

NoTx == [tickets |-> <<>>, seq |-> 0]
NoOut == [kind |-> "-"]

Init ==
  /\ tickets = <<>>
  /\ seq = 0
  /\ wlock = NoProc
  /\ clock = 0
  /\ pc = [p \in Procs |-> "idle"]
  /\ argv = [p \in Procs |-> [cmd |-> None]]
  /\ ns = [p \in Procs |-> NoArgs]
  /\ conn = [p \in Procs |-> "closed"]
  /\ ts = [p \in Procs |-> <<>>]
  /\ tx = [p \in Procs |-> NoTx]
  /\ out = [p \in Procs |-> NoOut]

\* The wall clock advances.
Tick ==
  /\ clock < MaxClock
  /\ clock' = clock + 1
  /\ UNCHANGED <<tickets, seq, wlock, pc, argv, ns, conn, ts, tx, out>>

\* Writers under way, by what they will add to the store.
Creating == {q \in Procs : pc[q] # "idle" /\ ns[q].cmd = "new"}
Noting(i) == {q \in Procs : pc[q] # "idle" /\ ns[q].cmd = "note" /\ ns[q].id = i}

\* The command lines that keep the store within the model's bounds.
InBounds(a) ==
  IF ParseError(a) \/ ~Given(a.cmd) THEN TRUE
  ELSE IF Val(a.cmd) = "new"
  THEN Cardinality(DOMAIN tickets) + Cardinality(Creating) < MaxTickets
  ELSE IF Val(a.cmd) = "note"
  THEN LET i == Val(a.id)
           have == IF i \in DOMAIN tickets
                   THEN Len(Coalesce(tickets[i].notes, <<>>)) ELSE 1
       IN have + (Cardinality(Noting(i)) + 1) * (1 + Len(Val(a.note))) <= MaxNoteLen
  ELSE TRUE

\* main(): parse the command line; argparse ends the run on a command line
\* it rejects, main prints the help when there is no command, and otherwise
\* the handler is called.
main(p, a) ==
  /\ pc[p] = "idle"
  /\ InBounds(a)
  /\ argv' = [argv EXCEPT ![p] = a]
  /\ IF ParseError(a)
     THEN /\ pc' = [pc EXCEPT ![p] = "exit"]
          /\ out' = [out EXCEPT ![p] = [kind |-> "usage"]]
          /\ UNCHANGED ns
     ELSE IF ~Given(a.cmd)
     THEN /\ pc' = [pc EXCEPT ![p] = "exit"]
          /\ out' = [out EXCEPT ![p] = [kind |-> "help"]]
          /\ UNCHANGED ns
     ELSE /\ pc' = [pc EXCEPT ![p] = "call"]
          /\ ns' = [ns EXCEPT ![p] = parse_args(a)]
          /\ UNCHANGED out
  /\ UNCHANGED <<tickets, seq, wlock, clock, conn, ts, tx>>

\* A writer opens its connection (get_conn) and evaluates the first now()
\* of its statement's parameters.
get_conn(p) ==
  /\ pc[p] = "call"
  /\ ns[p].cmd \in Writers
  /\ conn' = [conn EXCEPT ![p] = "open"]
  /\ ts' = [ts EXCEPT ![p] = <<now>>]
  /\ pc' = [pc EXCEPT ![p] = IF ns[p].cmd = "new" THEN "now2" ELSE "execute"]
  /\ UNCHANGED <<tickets, seq, wlock, clock, argv, ns, tx, out>>

\* The second now() of create_ticket's parameters.
Now2(p) ==
  /\ pc[p] = "now2"
  /\ ts' = [ts EXCEPT ![p] = Append(ts[p], now)]
  /\ pc' = [pc EXCEPT ![p] = "execute"]
  /\ UNCHANGED <<tickets, seq, wlock, clock, argv, ns, conn, tx, out>>

\* Writers that never wait for the write lock.
LockIgnored == TRUE

\* The write lock an INSERT or UPDATE needs is free.
LockFree == wlock = NoProc

\* c.execute(...) of a writer: the statement takes the write lock and runs
\* in a transaction of its own; then the handler prints its confirmation.
Execute(p) ==
  /\ pc[p] = "execute"
  /\ LockFree
  /\ wlock' = p
  /\ tx' = [tx EXCEPT ![p] = Statement(tickets, seq, ns[p], ts[p])]
  /\ out' = [out EXCEPT ![p] = [kind |-> "confirmation"]]
  /\ pc' = [pc EXCEPT ![p] = "commit"]
  /\ UNCHANGED <<tickets, seq, clock, argv, ns, conn, ts>>

\* c.execute(...) of a writer while another connection holds the write lock
\* and the connection's busy timeout runs out: "database is locked" is
\* raised, the with block rolls back and the exception ends the process.
Busy(p) ==
  /\ pc[p] = "execute"
  /\ wlock \notin {NoProc, p}
  /\ out' = [out EXCEPT ![p] = [kind |-> "traceback"]]
  /\ pc' = [pc EXCEPT ![p] = "exit"]
  /\ UNCHANGED <<tickets, seq, wlock, clock, argv, ns, conn, ts, tx>>

\* What the end of "with get_conn() as c" does to the connection: the
\* sqlite3 context manager commits and leaves the connection open.
AfterWith(c) == c

\* The end of the with block: the transaction commits and the handler
\* returns.
Commit(p) ==
  /\ pc[p] = "commit"
  /\ tickets' = tx[p].tickets
  /\ seq' = tx[p].seq
  /\ wlock' = NoProc
  /\ tx' = [tx EXCEPT ![p] = NoTx]
  /\ conn' = [conn EXCEPT ![p] = AfterWith(conn[p])]
  /\ pc' = [pc EXCEPT ![p] = "exit"]
  /\ UNCHANGED <<clock, argv, ns, ts, out>>

\* A reader opens its connection (get_conn), runs its query and prints the
\* rows; it neither commits nor closes the connection.
Report(p, c) ==
  /\ pc[p] = "call"
  /\ ns[p].cmd = c
  /\ conn' = [conn EXCEPT ![p] = "open"]
  /\ out' = [out EXCEPT ![p] = [kind |-> "report", ids |-> SelectIds(tickets, ns[p])]]
  /\ pc' = [pc EXCEPT ![p] = "exit"]
  /\ UNCHANGED <<tickets, seq, wlock, clock, argv, ns, ts, tx>>

list_tickets(p) == Report(p, "list")

find_tickets(p) == Report(p, "find")

export_csv(p) == Report(p, "export")

\* stats: get_conn and the first query, the counts by status.
stats(p) ==
  /\ pc[p] = "call"
  /\ ns[p].cmd = "stats"
  /\ conn' = [conn EXCEPT ![p] = "open"]
  /\ out' = [out EXCEPT ![p] = [kind |-> "counts", status |-> StatusCounts(tickets),
                                 priority |-> <<>>]]
  /\ pc' = [pc EXCEPT ![p] = "stats2"]
  /\ UNCHANGED <<tickets, seq, wlock, clock, argv, ns, ts, tx>>

\* stats: the second query, the counts by priority.
stats_priority(p) ==
  /\ pc[p] = "stats2"
  /\ out' = [out EXCEPT ![p] = [out[p] EXCEPT !.priority = PriorityCounts(tickets)]]
  /\ pc' = [pc EXCEPT ![p] = "exit"]
  /\ UNCHANGED <<tickets, seq, wlock, clock, argv, ns, conn, ts, tx>>

\* The status the process ends with: 2 from argparse, 1 from an uncaught
\* exception, 0 otherwise.
ExitCode(p) ==
  CASE out[p].kind = "usage" -> 2
    [] out[p].kind = "traceback" -> 1
    [] OTHER -> 0

\* The process ends; the operating system frees what it still held.
Exit(p) ==
  /\ pc[p] = "exit"
  /\ pc' = [pc EXCEPT ![p] = "idle"]
  /\ argv' = [argv EXCEPT ![p] = [cmd |-> None]]
  /\ ns' = [ns EXCEPT ![p] = NoArgs]
  /\ conn' = [conn EXCEPT ![p] = "closed"]
  /\ ts' = [ts EXCEPT ![p] = <<>>]
  /\ out' = [out EXCEPT ![p] = NoOut]
  /\ UNCHANGED <<tickets, seq, wlock, clock, tx>>

Step(p) ==
  \/ get_conn(p)
  \/ Now2(p)
  \/ Execute(p)
  \/ Commit(p)
  \/ list_tickets(p)
  \/ find_tickets(p)
  \/ export_csv(p)
  \/ stats(p)
  \/ stats_priority(p)
  \/ Exit(p)

\* One invocation at a time, each run to its end before the next starts.
Next ==
  \/ Tick
  \/ \E a \in Argvs : main(SeqProc, a)
  \/ Step(SeqProc)

Spec == Init /\ [][Next]_vars

\* The command lines of the concurrent runs: the valid ones that write, on
\* ticket 1, and list and stats.
ArgvsConc ==
  {a \in Argvs :
     /\ ~ParseError(a)
     /\ Given(a.cmd)
     /\ \/ Val(a.cmd) = "new" /\ ~Given(a.notes)
        \/ Val(a.cmd) \in {"status", "note", "assign"} /\ Val(a.id) = 1
        \/ Val(a.cmd) \in {"list", "stats"}}

\* Several invocations at once against the same store.
NextConc ==
  \/ Tick
  \/ \E p \in Procs : \E a \in ArgvsConc : main(p, a)
  \/ \E p \in Procs : Step(p)
  \/ \E p \in Procs : Busy(p)

SpecConc == Init /\ [][NextConc]_vars

\* ------------------------------------------------------------ properties

\* Process p's step is the commit that ends a run of command c.
Commits(p, c) == pc[p] = "commit" /\ pc'[p] = "exit" /\ ns[p].cmd = c

\* Process p has finished command c with its confirmation printed.
Finished(p, c) == pc[p] = "exit" /\ ns[p].cmd = c /\ out[p].kind = "confirmation"

\* C1: whenever `new` commits, the store gains exactly one row and no
\* existing row changes; the new row has status "Open", the given priority,
\* assignee and notes or else "Medium", "Unassigned" and "", and its
\* created_at equals its updated_at.
C1_CreateTicket ==
  [][\A p \in Procs : Commits(p, "new") =>
       LET a == argv[p]
           added == DOMAIN tickets' \ DOMAIN tickets
       IN /\ Cardinality(added) = 1
          /\ \A i \in DOMAIN tickets : i \in DOMAIN tickets' /\ tickets'[i] = tickets[i]
          /\ \A i \in added :
               /\ tickets'[i].title = Val(a.title)
               /\ tickets'[i].category = Val(a.category)
               /\ tickets'[i].status = "Open"
               /\ tickets'[i].priority =
                    (IF Given(a.priority) THEN Val(a.priority) ELSE "Medium")
               /\ tickets'[i].assignee =
                    (IF Given(a.assignee) THEN Val(a.assignee) ELSE "Unassigned")
               /\ tickets'[i].notes =
                    Some(IF Given(a.notes) THEN Val(a.notes) ELSE <<>>)
               /\ tickets'[i].created_at = tickets'[i].updated_at]_vars

\* C1 with the two timestamps in order instead of equal: whenever `new`
\* commits, the store gains exactly one row, no existing row changes, the
\* new row carries the given or default values, and created_at <= updated_at.
C1_CreateTicketOrdered ==
  [][\A p \in Procs : Commits(p, "new") =>
       LET a == argv[p]
           added == DOMAIN tickets' \ DOMAIN tickets
       IN /\ Cardinality(added) = 1
          /\ \A i \in DOMAIN tickets : i \in DOMAIN tickets' /\ tickets'[i] = tickets[i]
          /\ \A i \in added :
               /\ tickets'[i].title = Val(a.title)
               /\ tickets'[i].category = Val(a.category)
               /\ tickets'[i].status = "Open"
               /\ tickets'[i].priority =
                    (IF Given(a.priority) THEN Val(a.priority) ELSE "Medium")
               /\ tickets'[i].assignee =
                    (IF Given(a.assignee) THEN Val(a.assignee) ELSE "Unassigned")
               /\ tickets'[i].notes =
                    Some(IF Given(a.notes) THEN Val(a.notes) ELSE <<>>)
               /\ tickets'[i].created_at = ts[p][1]
               /\ tickets'[i].updated_at = ts[p][2]
               /\ tickets'[i].created_at <= tickets'[i].updated_at]_vars

\* A `new` run has finished whose row was stamped across a second boundary.
C1_Witness ==
  \E p \in Procs :
    /\ Finished(p, "new")
    /\ tickets[seq].created_at < tickets[seq].updated_at

C3_MissingIdNoOp ==
  [][\A p \in Procs : \A c \in {"status", "note", "assign"} :
       (Commits(p, c) /\ Val(argv[p].id) \notin DOMAIN tickets) =>
         /\ tickets' = tickets
         /\ seq' = seq
         /\ out'[p].kind = "confirmation"
         /\ ExitCode(p)' = 0]_vars

\* A note run has finished with its confirmation on an id the non-empty
\* store does not hold.
C3_Witness ==
  \E p \in Procs :
    /\ Finished(p, "note")
    /\ tickets # <<>>
    /\ ns[p].id \notin DOMAIN tickets

\* C4: whenever `note` commits on an existing id, the row's notes become the
\* old notes (NULL as empty), then a newline, then the given text; and in
\* every step each row's old notes are a prefix of its new notes.
C4_NotesAppendOnly ==
  [][/\ \A i \in DOMAIN tickets :
          /\ i \in DOMAIN tickets'
          /\ IsPrefix(Coalesce(tickets[i].notes, <<>>), Coalesce(tickets'[i].notes, <<>>))
     /\ \A p \in Procs :
          (Commits(p, "note") /\ Val(argv[p].id) \in DOMAIN tickets) =>
            tickets'[Val(argv[p].id)].notes =
              Some(Coalesce(tickets[Val(argv[p].id)].notes, <<>>)
                     \o <<NL>> \o Val(argv[p].note))]_vars

\* A ticket created with notes "a" has had a note added, and another ticket
\* has had two.
C4_Witness ==
  /\ \E i \in DOMAIN tickets : tickets[i].notes = Some(<<"a", NL, "b">>)
  /\ \E i \in DOMAIN tickets : tickets[i].notes = Some(<<NL, "b", NL, "b">>)

\* C5: in every step the ids of the rows are pairwise distinct, no row
\* leaves the store, no row's id changes, and whenever `new` commits the
\* store gains a row whose id is above every id given out before.
C5_IdsUniqueGrowing ==
  [][/\ \A i, j \in DOMAIN tickets' :
          i # j => tickets'[i].id # tickets'[j].id
     /\ \A i \in DOMAIN tickets :
          i \in DOMAIN tickets' /\ tickets'[i].id = tickets[i].id
     /\ \A i \in DOMAIN tickets' \ DOMAIN tickets :
          /\ tickets'[i].id = i
          /\ i > seq
          /\ \A j \in DOMAIN tickets : tickets'[i].id > tickets[j].id
     /\ \A p \in Procs :
          Commits(p, "new") => DOMAIN tickets' # DOMAIN tickets]_vars

\* A second ticket has been created after the first one was updated.
C5_Witness ==
  \E p \in Procs :
    /\ Finished(p, "new")
    /\ DOMAIN tickets = {1, 2}
    /\ tickets[1].status = "Resolved"
    /\ tickets[2].id = 2

BadChoice(a) ==
  /\ Given(a.cmd)
  /\ \/ /\ Val(a.cmd) = "new"
        /\ \/ (Given(a.category) /\ Val(a.category) \notin Categories)
           \/ (Given(a.priority) /\ Val(a.priority) \notin Priorities)
     \/ /\ Val(a.cmd) = "status"
        /\ Given(a.status)
        /\ Val(a.status) \notin Statuses

\* C7: in every step each row's category, priority and status are in their
\* fixed sets; and a `new` or `status` run started with a value outside them
\* goes straight to its end with the usage message and status 2, opens no
\* connection and leaves the store as it was.
C7_EnumerationsEnforced ==
  [][/\ \A i \in DOMAIN tickets' :
          /\ tickets'[i].category \in Categories
          /\ tickets'[i].priority \in Priorities
          /\ tickets'[i].status \in Statuses
     /\ \A p \in Procs :
          (pc'[p] # "idle" /\ BadChoice(argv'[p])) =>
            /\ pc'[p] = "exit"
            /\ out'[p].kind = "usage"
            /\ ExitCode(p)' = 2
            /\ conn'[p] = "closed"
     /\ \A p \in Procs :
          (pc'[p] # pc[p] /\ (BadChoice(argv[p]) \/ BadChoice(argv'[p]))) =>
            tickets' = tickets /\ seq' = seq]_vars

\* A status run with a value outside the set has been rejected while the
\* store holds a ticket.
C7_Witness ==
  \E p \in Procs :
    /\ pc[p] = "exit"
    /\ BadChoice(argv[p])
    /\ Val(argv[p].cmd) = "status"
    /\ tickets # <<>>

C9_WritersSerialize ==
  [][\A p \in Procs :
       (pc[p] = "commit" /\ pc'[p] = "exit") =>
         /\ tickets' = Statement(tickets, seq, ns[p], ts[p]).tickets
         /\ seq' = Statement(tickets, seq, ns[p], ts[p]).seq
         /\ (ns[p].cmd = "note" /\ ns[p].id \in DOMAIN tickets) =>
              tickets'[ns[p].id].notes =
                Some(Coalesce(tickets[ns[p].id].notes, <<>>) \o <<NL>> \o ns[p].note)
         /\ ns[p].cmd = "new" => Cardinality(DOMAIN tickets') = Cardinality(DOMAIN tickets) + 1]_vars

\* Two note runs on the same existing ticket are under way together: one has
\* committed and not yet ended, the other holds the lock with both notes in
\* its transaction.
C9_Witness ==
  \E p, q \in Procs :
    /\ p # q
    /\ Finished(p, "note")
    /\ pc[q] = "commit"
    /\ ns[q].cmd = "note"
    /\ ns[q].id = ns[p].id
    /\ ns[q].id \in DOMAIN tickets
    /\ tx[q].tickets[ns[q].id].notes = Some(<<NL, "b", NL, "b">>)

\* C10: a run whose handler was called has no open connection once the
\* handler has returned or raised.
C10_ConnectionReleased ==
  \A p \in Procs :
    (pc[p] = "exit" /\ out[p].kind \notin {"usage", "help"}) => conn[p] = "closed"

====
